---- MODULE Spec2Model ----
(***************************************************************************)
(* Merkle tree root calculation of shizzard/merkle_root: the sequential    *)
(* DepthWalk strategy (calc/depth_walk.rs) and the rayon-parallel          *)
(* WidthWalk strategy (calc/width_walk.rs), both behind the                *)
(* MerkleTreeRoot::calculate entry point (calc/mod.rs).                    *)
(*                                                                         *)
(* A digest (the generic type H) is a non-empty sequence of tokens.  An    *)
(* Option<H> is a sequence of length at most one: None is <<>> and         *)
(* Some(x) is <<x>>.  The strategies are generic in H with no equality     *)
(* bound, so they cannot inspect a digest; the sources checked carry       *)
(* pairwise distinct leaves (as the unit tests do) or one repeated leaf.   *)
(*                                                                         *)
(* The calculations are driven the way the unit tests and the benchmark    *)
(* drive them: every invocation gets a freshly constructed source over     *)
(* the same leaf file, DepthWalk first, then WidthWalk, Runs times each.   *)
(***************************************************************************)
EXTENDS Integers, Sequences, FiniteSets

\* Longest leaf file explored.
MaxLeaves == 16
\* Invocations of each strategy on independently constructed sources.
Runs == 2

VARIABLES
    leaves,      \* the leaf digests of the input file, in file order
    hash_fn,     \* the combinator handed to calculate: "mock" or "sha256"
    mode,        \* strategy being invoked: "depth", "width", then "end"
    run,         \* number of the invocation of that strategy, 1..Runs
    pc,          \* position of the invocation
    source,      \* the Peekable iterator: the leaves not yet taken by next()
    reads,       \* leaves handed out by source.next(), in the order taken
    stack,       \* DepthWalk: call stack of walk_up / walk_down frames
    ret,         \* DepthWalk: value returned by the frame that just returned
    layer,       \* WidthWalk: `layer` of the current walk_layers call
    next_layer,  \* WidthWalk: the output slots of the parallel collect
    pending,     \* WidthWalk: chunk indices whose map task has not run yet
    level,       \* WidthWalk: tree level of `layer` (0 = the leaves)
    calls,       \* every hash_fn call of this invocation
    result,      \* the Option<H> calculate returned
    results      \* outcomes of the finished invocations

vars == <<leaves, hash_fn, mode, run, pc, source, reads, stack, ret, layer,
          next_layer, pending, level, calls, result, results>>

----------------------------------------------------------------------------
\* Option<H>
None == <<>>
Some(x) == <<x>>

\* Leaf digests 'a', 'b', 'c', ... of the unit tests.
Symbols ==
    <<"a", "b", "c", "d", "e", "f", "g", "h", "i", "j", "k", "l", "m", "n", "o", "p",
      "q", "r", "s", "t">>

\* vec![vec!['a'], vec!['b'], ...]: n pairwise distinct one-token digests.
DistinctLeaves(n) == [i \in 1..n |-> <<Symbols[i]>>]

\* n copies of one digest.
RepeatedLeaves(n) == [i \in 1..n |-> <<Symbols[1]>>]

SourceContents ==
    {DistinctLeaves(n) : n \in 0..MaxLeaves} \cup {RepeatedLeaves(n) : n \in 2..MaxLeaves}

\* The mock combinator of the unit tests: left ++ (right if present, else left).
mock_hash(left, right) ==
    left \o (IF right = None THEN left ELSE right[1])

\* SHA-256 as a collision-free function of its input: the input in brackets.
Sha256(input) == <<"(">> \o input \o <<")">>

\* calc::hash: SHA-256 over left || right, or over left || left when right is None.
hash(left, right) ==
    Sha256(left \o (IF right # None THEN right[1] ELSE left))

\* hash_fn(left, right) for the combinator f.
ApplyHash(f, left, right) ==
    IF f = "mock" THEN mock_hash(left, right) ELSE hash(left, right)

\* One hash_fn call: the tree level of the node it builds, the node's index on
\* that level (1 = leftmost), its operands and the digest it returned.
Call(lvl, idx, left, right, out) ==
    [lvl |-> lvl, idx |-> idx, left |-> left, right |-> right, out |-> out]

CallsAt(cs, lvl) == {c \in cs : c.lvl = lvl}

\* DepthWalk builds the nodes of a level left to right.
NextIdx(cs, lvl) == Cardinality(CallsAt(cs, lvl)) + 1

----------------------------------------------------------------------------
\* Peekable<I>

\* source.peek() is Some(_)
peek_some(s) == s # <<>>

\* Option returned by source.next()
next_item(s) == IF s = <<>> THEN None ELSE Some(Head(s))

\* Variant of next_rest: next() drops one more item.
next_rest_skip(s) == IF Len(s) <= 1 THEN <<>> ELSE Tail(Tail(s))

\* the iterator after source.next()
next_rest(s) == IF s = <<>> THEN <<>> ELSE Tail(s)

----------------------------------------------------------------------------
Frame(fn, height, left, at) ==
    [fn |-> fn, height |-> height, left |-> left, at |-> at]

Top == stack[Len(stack)]
Pop == SubSeq(stack, 1, Len(stack) - 1)
SetTop(f) == [stack EXCEPT ![Len(stack)] = f]

Init ==
    /\ leaves \in SourceContents
    /\ hash_fn \in {"mock", "sha256"}
    /\ mode = "depth"
    /\ run = 1
    /\ pc = "new"
    /\ source = <<>>
    /\ reads = <<>>
    /\ stack = <<>>
    /\ ret = None
    /\ layer = <<>>
    /\ next_layer = <<>>
    /\ pending = {}
    /\ level = 0
    /\ calls = {}
    /\ result = None
    /\ results = {}

\* vec![...].into_iter().peekable() / SourceReader::new(file).peekable():
\* a fresh source over the leaf file for the next invocation.
new_source ==
    /\ pc = "new"
    /\ mode \in {"depth", "width"}
    /\ source' = leaves
    /\ pc' = "ready"
    /\ UNCHANGED <<leaves, hash_fn, mode, run, reads, stack, ret, layer, next_layer,
                   pending, level, calls, result, results>>

\* The outcome of the invocation that just ended.
Outcome ==
    [strategy |-> mode, run |-> run, panicked |-> (pc = "panicked"), root |-> result]

\* The caller takes the outcome (the tests' assert_eq! / #[should_panic], the
\* benchmark's b.iter); the source and the locals of the invocation are
\* dropped, and the caller goes on to the next invocation.
finish ==
    /\ pc \in {"returned", "panicked"}
    /\ results' = results \cup {Outcome}
    /\ pc' = "new"
    /\ IF run < Runs
         THEN /\ run' = run + 1
              /\ mode' = mode
         ELSE /\ run' = 1
              /\ mode' = IF mode = "depth" THEN "width" ELSE "end"
    /\ source' = <<>>
    /\ reads' = <<>>
    /\ stack' = <<>>
    /\ ret' = None
    /\ layer' = <<>>
    /\ next_layer' = <<>>
    /\ pending' = {}
    /\ level' = 0
    /\ calls' = {}
    /\ result' = None
    /\ UNCHANGED <<leaves, hash_fn>>

----------------------------------------------------------------------------
\* DepthWalk (calc/depth_walk.rs)

\* Variant of next_height: the ascent skips a level.
next_height_skip(height) == height + 2

\* Variant of next_height: the ascent does not grow.
next_height_flat(height) == height

\* walk_up(height + 1, ...): the height of the next ascent step.
next_height(height) == height + 1

\* walk_down(height - 1, ...): the height of a descent's sub-results.
down_height(height) == height - 1

\* Variant of left_is_absent: the `?` is missing.
left_is_absent_ignored(opt) == FALSE

\* The `?` on the left sub-result of walk_down: absent, so return None now.
left_is_absent(opt) == opt = None

WidthVarsUnchanged == UNCHANGED <<layer, next_layer, pending, level>>

\* DepthWalk::calculate: take the first leaf, or panic on an empty source.
DepthWalk_calculate ==
    /\ pc = "ready"
    /\ mode = "depth"
    /\ IF next_item(source) = None
         THEN /\ pc' = "panicked"
              /\ UNCHANGED <<source, reads, stack>>
         ELSE /\ pc' = "depth"
              /\ source' = next_rest(source)
              /\ reads' = reads \o next_item(source)
              /\ stack' = <<Frame("walk_up", 1, next_item(source), "call")>>
    /\ WidthVarsUnchanged
    /\ UNCHANGED <<leaves, hash_fn, mode, run, ret, calls, result, results>>

\* walk_up: let right = walk_down(height - 1, source, hash_fn)
walk_up_call ==
    /\ pc = "depth"
    /\ stack # <<>>
    /\ Top.fn = "walk_up"
    /\ Top.at = "call"
    /\ stack' = Append(SetTop([Top EXCEPT !.at = "combine"]),
                       Frame("walk_down", down_height(Top.height), None, "enter"))
    /\ ret' = None
    /\ WidthVarsUnchanged
    /\ UNCHANGED <<leaves, hash_fn, mode, run, pc, source, reads, calls, result, results>>

\* walk_up: hash = hash_fn(left, right); then peek: ascend once more, or
\* return the root.
walk_up_combine ==
    /\ pc = "depth"
    /\ stack # <<>>
    /\ Top.fn = "walk_up"
    /\ Top.at = "combine"
    /\ LET h == ApplyHash(hash_fn, Top.left[1], ret)
       IN  /\ calls' = calls \cup
                 {Call(Top.height, NextIdx(calls, Top.height), Top.left, ret, h)}
           /\ IF peek_some(source)
                THEN /\ stack' = Append(SetTop([Top EXCEPT !.at = "tail"]),
                                        Frame("walk_up", next_height(Top.height),
                                              Some(h), "call"))
                     /\ ret' = None
                ELSE /\ stack' = Pop
                     /\ ret' = Some(h)
    /\ WidthVarsUnchanged
    /\ UNCHANGED <<leaves, hash_fn, mode, run, pc, source, reads, result, results>>

\* walk_up: the nested walk_up returned; its value is this call's value.
walk_up_return ==
    /\ pc = "depth"
    /\ stack # <<>>
    /\ Top.fn = "walk_up"
    /\ Top.at = "tail"
    /\ stack' = Pop
    /\ WidthVarsUnchanged
    /\ UNCHANGED <<leaves, hash_fn, mode, run, pc, source, reads, ret, calls,
                   result, results>>

\* walk_down at height 0: source.next()
walk_down_leaf ==
    /\ pc = "depth"
    /\ stack # <<>>
    /\ Top.fn = "walk_down"
    /\ Top.at = "enter"
    /\ Top.height = 0
    /\ ret' = next_item(source)
    /\ reads' = reads \o next_item(source)
    /\ source' = next_rest(source)
    /\ stack' = Pop
    /\ WidthVarsUnchanged
    /\ UNCHANGED <<leaves, hash_fn, mode, run, pc, calls, result, results>>

\* walk_down at height > 0: evaluate the first argument,
\* walk_down(height - 1, source, hash_fn)?
walk_down_descend ==
    /\ pc = "depth"
    /\ stack # <<>>
    /\ Top.fn = "walk_down"
    /\ Top.at = "enter"
    /\ Top.height # 0
    /\ stack' = Append(SetTop([Top EXCEPT !.at = "left"]),
                       Frame("walk_down", down_height(Top.height), None, "enter"))
    /\ ret' = None
    /\ WidthVarsUnchanged
    /\ UNCHANGED <<leaves, hash_fn, mode, run, pc, source, reads, calls, result, results>>

\* walk_down: the first argument is back.  `?` returns None when it is
\* absent; otherwise evaluate the second argument, walk_down(height - 1, ...).
walk_down_left ==
    /\ pc = "depth"
    /\ stack # <<>>
    /\ Top.fn = "walk_down"
    /\ Top.at = "left"
    /\ IF left_is_absent(ret)
         THEN /\ stack' = Pop
              /\ ret' = None
         ELSE /\ stack' = Append(SetTop([Top EXCEPT !.left = ret, !.at = "right"]),
                                 Frame("walk_down", down_height(Top.height), None, "enter"))
              /\ ret' = None
    /\ WidthVarsUnchanged
    /\ UNCHANGED <<leaves, hash_fn, mode, run, pc, source, reads, calls, result, results>>

\* walk_down: both arguments are back: Some(hash_fn(left, right))
walk_down_combine ==
    /\ pc = "depth"
    /\ stack # <<>>
    /\ Top.fn = "walk_down"
    /\ Top.at = "right"
    /\ LET h == ApplyHash(hash_fn, Top.left[1], ret)
       IN  /\ calls' = calls \cup
                 {Call(Top.height, NextIdx(calls, Top.height), Top.left, ret, h)}
           /\ ret' = Some(h)
    /\ stack' = Pop
    /\ WidthVarsUnchanged
    /\ UNCHANGED <<leaves, hash_fn, mode, run, pc, source, reads, result, results>>

\* DepthWalk::calculate returns what the outermost walk_up returned.
DepthWalk_return ==
    /\ pc = "depth"
    /\ stack = <<>>
    /\ result' = ret
    /\ pc' = "returned"
    /\ WidthVarsUnchanged
    /\ UNCHANGED <<leaves, hash_fn, mode, run, source, reads, stack, ret, calls, results>>

----------------------------------------------------------------------------
\* WidthWalk (calc/width_walk.rs)

\* layer.par_chunks(2): the number of chunks of a layer of m elements.
NumChunks(m) == (m + 1) \div 2

\* Variant of Chunk: overlapping windows (windows(2)) in place of chunks.
Chunk_windows(l, i) == SubSeq(l, i, IF i + 1 <= Len(l) THEN i + 1 ELSE Len(l))

\* the i-th chunk of par_chunks(2), i = 1, 2, ...
Chunk(l, i) == SubSeq(l, 2 * i - 1, IF 2 * i <= Len(l) THEN 2 * i ELSE Len(l))

\* the closure of map: `if chunk.len() == 2 { hash_fn(&chunk[0], Some(&chunk[1])) }
\* else { hash_fn(&chunk[0], None) }`: the right operand it hands to hash_fn.
chunk_right(chunk) == IF Len(chunk) = 2 THEN Some(chunk[2]) ELSE None

\* the closure of map, applied to one chunk
chunk_map(f, chunk) == ApplyHash(f, chunk[1], chunk_right(chunk))

\* Variant of layer_is_empty: the emptiness check is missing.
layer_is_empty_unchecked(l) == FALSE

\* `if layer.len() == 0 { panic!(..) }`
layer_is_empty(l) == Len(l) = 0

\* Variant of WriteSlot: results are pushed in the order the tasks complete.
WriteSlot_push(slots, i, v) ==
    LET free == {j \in 1..Len(slots) : slots[j] = None}
        first == CHOOSE j \in free : \A k \in free : j <= k
    IN  [slots EXCEPT ![first] = Some(v)]

\* collect() of an indexed parallel iterator: the task of chunk i writes
\* output slot i.
WriteSlot(slots, i, v) == [slots EXCEPT ![i] = Some(v)]

\* Variant of all_tasks_done: the last task of the level is not waited for.
all_tasks_done_but_one(p) == Cardinality(p) <= 1

\* collect() hands the output over once every task of the level has run.
all_tasks_done(p) == p = {}

\* the Vec collect() hands over: the written slots, in slot order
Collected(slots) ==
    LET written == SelectSeq(slots, LAMBDA s : s # None)
    IN  [i \in 1..Len(written) |-> written[i][1]]

DepthVarsUnchanged == UNCHANGED <<stack, ret>>

\* WidthWalk::calculate: drain the source into layer 0; panic when it is
\* empty, else call walk_layers.
WidthWalk_calculate ==
    /\ pc = "ready"
    /\ mode = "width"
    /\ layer' = source
    /\ reads' = reads \o source
    /\ source' = <<>>
    /\ pc' = IF layer_is_empty(source) THEN "panicked" ELSE "walk_layers"
    /\ DepthVarsUnchanged
    /\ UNCHANGED <<leaves, hash_fn, mode, run, next_layer, pending, level, calls,
                   result, results>>

\* walk_layers: if layer.len() == 1 { return layer.pop().unwrap() }
walk_layers_return ==
    /\ pc = "walk_layers"
    /\ Len(layer) = 1
    /\ result' = Some(layer[Len(layer)])
    /\ layer' = SubSeq(layer, 1, Len(layer) - 1)
    /\ pc' = "returned"
    /\ DepthVarsUnchanged
    /\ UNCHANGED <<leaves, hash_fn, mode, run, source, reads, next_layer, pending,
                   level, calls, results>>

\* walk_layers: layer.par_chunks(2).map(..): one task per chunk, handed to
\* the rayon pool.
walk_layers_par_chunks ==
    /\ pc = "walk_layers"
    /\ Len(layer) # 1
    /\ pending' = 1..NumChunks(Len(layer))
    /\ next_layer' = [i \in 1..NumChunks(Len(layer)) |-> None]
    /\ pc' = "par_chunks"
    /\ DepthVarsUnchanged
    /\ UNCHANGED <<leaves, hash_fn, mode, run, source, reads, layer, level, calls,
                   result, results>>

\* A pool thread runs the task of one chunk; the tasks of a level run in any
\* order.
chunk_task(i) ==
    /\ pc = "par_chunks"
    /\ i \in pending
    /\ LET c == Chunk(layer, i)
           h == chunk_map(hash_fn, c)
       IN  /\ next_layer' = WriteSlot(next_layer, i, h)
           /\ calls' = calls \cup {Call(level + 1, i, Some(c[1]), chunk_right(c), h)}
    /\ pending' = pending \ {i}
    /\ DepthVarsUnchanged
    /\ UNCHANGED <<leaves, hash_fn, mode, run, pc, source, reads, layer, level,
                   result, results>>

\* walk_layers: .collect() completes; walk_layers(next_layer, hash_fn)
walk_layers_collect ==
    /\ pc = "par_chunks"
    /\ all_tasks_done(pending)
    /\ layer' = Collected(next_layer)
    /\ next_layer' = <<>>
    /\ level' = level + 1
    /\ pc' = "walk_layers"
    /\ DepthVarsUnchanged
    /\ UNCHANGED <<leaves, hash_fn, mode, run, source, reads, pending, calls,
                   result, results>>

----------------------------------------------------------------------------
Next ==
    \/ new_source
    \/ finish
    \/ DepthWalk_calculate
    \/ walk_up_call
    \/ walk_up_combine
    \/ walk_up_return
    \/ walk_down_leaf
    \/ walk_down_descend
    \/ walk_down_left
    \/ walk_down_combine
    \/ DepthWalk_return
    \/ WidthWalk_calculate
    \/ walk_layers_return
    \/ walk_layers_par_chunks
    \/ \E i \in pending : chunk_task(i)
    \/ walk_layers_collect

Spec == Init /\ [][Next]_vars

\* The calling thread and the rayon pool keep running: a step that can be
\* taken is taken.
FairSpec == Spec /\ WF_vars(Next)
----------------------------------------------------------------------------
\* Properties

NumLeaves == Len(leaves)

RECURSIVE Flatten(_)
\* the leaf digests one after the other
Flatten(ls) == IF ls = <<>> THEN <<>> ELSE Head(ls) \o Flatten(Tail(ls))

IsPowerOfTwo(n) == \E k \in 0..n : 2^k = n

\* least k with 2^k >= n, for n >= 1
CeilLog2(n) == CHOOSE k \in 0..n : 2^k >= n /\ (k = 0 \/ 2^(k - 1) < n)

Max(a, b) == IF a >= b THEN a ELSE b

OutcomesOf(s) == {o \in results : o.strategy = s}

\* C1: for every non-empty leaf sequence and the same combinator,
\* DepthWalk::calculate and WidthWalk::calculate return the identical root.
C1_SameRoot ==
    NumLeaves >= 1 =>
        \A d \in OutcomesOf("depth"), w \in OutcomesOf("width") :
            /\ ~d.panicked
            /\ ~w.panicked
            /\ d.root = w.root

\* The two strategies do agree from two leaves on.
SameRootFromTwoLeaves ==
    NumLeaves >= 2 =>
        \A d \in OutcomesOf("depth"), w \in OutcomesOf("width") :
            /\ ~d.panicked
            /\ ~w.panicked
            /\ d.root = w.root

\* C2: for a source of exactly one leaf a, each strategy returns
\* combine(a, None) (the mock combinator gives aa), not the bare leaf a.
C2_SingleLeafCombinedWithItself ==
    NumLeaves = 1 =>
        \A o \in results :
            /\ ~o.panicked
            /\ o.root = Some(ApplyHash(hash_fn, leaves[1], None))
            /\ o.root # Some(leaves[1])

\* C3: on an empty source both strategies panic: calculate never returns a
\* digest, the combinator is never called and no digest is produced.
C3_EmptySourcePanics ==
    NumLeaves = 0 =>
        /\ calls = {}
        /\ result = None
        /\ pc \in {"new", "ready", "panicked"}
        /\ \A o \in results : o.panicked /\ o.root = None

\* Both strategies have panicked on the empty source.
C3_Witness ==
    /\ NumLeaves = 0
    /\ mode = "width"
    /\ pc = "panicked"
    /\ \E o \in results : o.strategy = "depth" /\ o.panicked

\* No hash_fn call with an absent right operand; under the mock combinator
\* the returned root is the leaves in source order, each once.
NoDuplication ==
    /\ \A c \in calls : c.right # None
    /\ (pc = "returned" /\ hash_fn = "mock") => result = Some(Flatten(leaves))
    /\ \A o \in results : ~o.panicked /\ (hash_fn = "mock" => o.root = Some(Flatten(leaves)))

\* C4 as stated: for every power-of-two leaf count 1, 2, 4, 8, ... no
\* duplication occurs in either strategy.
C4_PowerOfTwoNoDuplication ==
    IsPowerOfTwo(NumLeaves) => NoDuplication

\* C4 amended: for every power-of-two leaf count from 2 on (2, 4, 8, ...) no
\* duplication occurs in either strategy; a single leaf is duplicated by
\* DepthWalk.
C4_PowerOfTwoFromTwoNoDuplication ==
    (NumLeaves >= 2 /\ IsPowerOfTwo(NumLeaves)) => NoDuplication

\* Eight distinct leaves went through both strategies without duplication.
C4_Witness ==
    /\ NumLeaves = 8
    /\ hash_fn = "mock"
    /\ mode = "width"
    /\ pc = "returned"
    /\ Cardinality(calls) = 7
    /\ result = Some(Flatten(leaves))
    /\ \E o \in results : o.strategy = "depth" /\ o.root = Some(Flatten(leaves))
\* Node i of tree level lvl: a leaf on level 0, else what the hash_fn call
\* for that node returned.
HasNode(lvl, i) ==
    IF lvl = 0 THEN i \in 1..NumLeaves
    ELSE \E c \in calls : c.lvl = lvl /\ c.idx = i

NodeAt(lvl, i) ==
    IF lvl = 0 THEN leaves[i]
    ELSE (CHOOSE c \in calls : c.lvl = lvl /\ c.idx = i).out

NodeCount(lvl) ==
    IF lvl = 0 THEN NumLeaves ELSE Cardinality(CallsAt(calls, lvl))

Levels == {c.lvl : c \in calls}

\* Every node built is the combination of two consecutive nodes of the level
\* below, or of the last node of that level with None.
PairwiseNodes ==
    \A c \in calls :
        /\ \A d \in calls : (d.lvl = c.lvl /\ d.idx = c.idx) => d = c
        /\ HasNode(c.lvl - 1, 2 * c.idx - 1)
        /\ c.left = Some(NodeAt(c.lvl - 1, 2 * c.idx - 1))
        /\ c.right = IF HasNode(c.lvl - 1, 2 * c.idx)
                       THEN Some(NodeAt(c.lvl - 1, 2 * c.idx))
                       ELSE None
        /\ c.out = ApplyHash(hash_fn, c.left[1], c.right)

\* When calculate has returned, every level built is complete, and above an
\* odd level the rightmost node is combine(x, None), x the last node of the
\* odd level.
OddLevelsDuplicateLast ==
    pc = "returned" =>
        \A lvl \in Levels :
            LET m == NodeCount(lvl - 1)
            IN  /\ NodeCount(lvl) = (m + 1) \div 2
                /\ \A i \in 1..NodeCount(lvl) : HasNode(lvl, i)
                /\ m % 2 = 1 =>
                     \E c \in CallsAt(calls, lvl) :
                         /\ c.idx = (m + 1) \div 2
                         /\ c.left = Some(NodeAt(lvl - 1, m))
                         /\ c.right = None

\* [a,b,c] gives abcc; five leaves give abcd followed by the fifth leaf
\* duplicated on two successive levels.
OddExamples ==
    (pc = "returned" /\ hash_fn = "mock") =>
        /\ leaves = DistinctLeaves(3) => result = Some(<<"a", "b", "c", "c">>)
        /\ leaves = DistinctLeaves(5) =>
               /\ result = Some(<<"a", "b", "c", "d", "e", "e", "e", "e">>)
               /\ \E c1, c2 \in calls :
                     /\ c1.lvl = 1 /\ c1.left = Some(<<"e">>) /\ c1.right = None
                     /\ c2.lvl = 2 /\ c2.left = Some(c1.out) /\ c2.right = None

\* C5: in both strategies, above a level holding an odd number of nodes the
\* rightmost node is combine(x, None), x the last node of the odd level, and
\* every other node is the combination of two consecutive nodes.
C5_OddLevelDuplicatesLast ==
    /\ PairwiseNodes
    /\ OddLevelsDuplicateLast
    /\ OddExamples

\* Five leaves went through both strategies: the fifth was duplicated on two
\* successive levels.
C5_Witness ==
    /\ leaves = DistinctLeaves(5)
    /\ hash_fn = "mock"
    /\ mode = "width"
    /\ pc = "returned"
    /\ result = Some(<<"a", "b", "c", "d", "e", "e", "e", "e">>)
    /\ \E o \in results : o.strategy = "depth" /\ o.root = result

\* Element i of the next layer is the combination of elements 2i-1 and 2i of
\* the current layer (1-based), whatever tasks have run so far.
CollectedInPairOrder ==
    pc = "par_chunks" =>
        /\ Len(next_layer) = NumChunks(Len(layer))
        /\ \A i \in 1..Len(next_layer) :
              IF i \in pending
                THEN next_layer[i] = None
                ELSE next_layer[i] =
                       Some(ApplyHash(hash_fn, layer[2 * i - 1],
                                      IF 2 * i <= Len(layer)
                                        THEN Some(layer[2 * i]) ELSE None))

\* C6: the same strategy run twice on two independent sources carrying the
\* same leaves returns identical roots, under every order of the per-pair
\* tasks, because the results are collected in pair order.
C6_Deterministic ==
    /\ \A o1, o2 \in results :
          o1.strategy = o2.strategy =>
              (o1.panicked = o2.panicked /\ o1.root = o2.root)
    /\ (pc = "returned" =>
          \A o \in OutcomesOf(mode) : ~o.panicked /\ o.root = result)
    /\ CollectedInPairOrder

\* The second WidthWalk run over seven leaves has returned, after a first
\* run that returned the same root.
C6_Witness ==
    /\ NumLeaves = 7
    /\ mode = "width"
    /\ run = 2
    /\ pc = "returned"
    /\ \E o \in results : o.strategy = "width" /\ o.run = 1 /\ o.root = result
    /\ \E o1, o2 \in results : o1.strategy = "depth" /\ o2.strategy = "depth" /\ o1.run # o2.run

\* The digests that exist below level lvl: the leaves and the results of the
\* calls on lower levels.
DigestsBelow(lvl) ==
    {leaves[i] : i \in 1..NumLeaves} \cup {c.out : c \in {d \in calls : d.lvl < lvl}}

\* Every call has a present left operand, a leaf or an earlier result; a right
\* operand is None or such a digest, never an empty one.
LeftAlwaysPresent ==
    /\ \A c \in calls :
          /\ c.left # None
          /\ c.left[1] # <<>>
          /\ c.left[1] \in DigestsBelow(c.lvl)
          /\ c.right # None => (c.right[1] # <<>> /\ c.right[1] \in DigestsBelow(c.lvl))
          /\ c.right = None => c.out = ApplyHash(hash_fn, c.left[1], Some(c.left[1]))
    /\ \A k \in 1..Len(stack) :
          /\ stack[k].fn = "walk_up" => stack[k].left # None
          /\ (stack[k].fn = "walk_down" /\ stack[k].at = "right") => stack[k].left # None

\* A descent whose left sub-result is absent
AbsentLeft ==
    /\ pc = "depth"
    /\ stack # <<>>
    /\ Top.fn = "walk_down"
    /\ Top.at = "left"
    /\ ret = None

\* C7: every combinator call has a present left operand; a descent of
\* DepthWalk that finds no leaf for its left sub-result returns absent without
\* calling the combinator; an absent right operand is passed on as None.
C7_LeftOperandPresent ==
    /\ []LeftAlwaysPresent
    /\ [][AbsentLeft => (calls' = calls /\ ret' = None /\ stack' = Pop)]_vars

\* A descent has returned absent and DepthWalk has then combined a node above
\* the leaves with None.
C7_Witness ==
    /\ mode = "depth"
    /\ \E c \in calls : c.lvl >= 2 /\ c.right = None
    /\ \E k \in 1..Len(stack) : stack[k].fn = "walk_up"
\* While a level is being combined no node above it exists, and a node of
\* level k+1 exists only once every pair of level k-1 nodes has been combined
\* into level k.
LevelBarrier ==
    mode = "width" =>
        /\ \A c \in calls :
              /\ c.lvl <= level + 1
              /\ c.lvl >= 2 =>
                   NodeCount(c.lvl - 1) = NumChunks(NodeCount(c.lvl - 2))
        /\ pc = "par_chunks" =>
              /\ Len(layer) > 1
              /\ pending # {} => \A c \in calls : c.lvl = level + 1 => c.idx \notin pending
        /\ pc = "walk_layers" => (Len(layer) = NodeCount(level) /\ Len(layer) >= 1)
        /\ pc = "returned" => NodeCount(level) = 1

\* walk_layers moves to the next level
LevelStep == mode = "width" /\ level' = level + 1

\* WidthWalk::calculate returns
WidthReturns == mode = "width" /\ pc # "returned" /\ pc' = "returned"

\* C8: under every interleaving of the pair tasks, no combination for level
\* k+1 starts before every pair of level k is combined, a level of m > 1
\* elements yields one of ceil(m/2), and the computation stops exactly when a
\* level has one element.
C8_LevelBarrier ==
    /\ []LevelBarrier
    /\ [][LevelStep => (/\ pending = {}
                        /\ Len(layer) > 1
                        /\ Len(layer') = (Len(layer) + 1) \div 2
                        /\ \A i \in 1..Len(next_layer) : next_layer[i] # None)]_vars
    /\ [][WidthReturns => (Len(layer) = 1 /\ result' = Some(layer[1]))]_vars
    /\ [][(mode = "width" /\ pc = "walk_layers" /\ Len(layer) = 1) => pc' = "returned"]_vars

\* The second level of WidthWalk is half combined: one pair task of it has
\* run and another has not.
C8_Witness ==
    /\ mode = "width"
    /\ pc = "par_chunks"
    /\ level = 1
    /\ pending # {}
    /\ \E c \in calls : c.lvl = 2
    /\ NodeCount(1) = NumChunks(NumLeaves)

\* The leaves at level-0 positions 2i-1 and 2i are the operands of node i of
\* level 1, each leaf in one position only.
LeavesEnterOnce ==
    /\ \A c \in CallsAt(calls, 1) :
          /\ 2 * c.idx - 1 <= Len(reads)
          /\ c.left = Some(reads[2 * c.idx - 1])
          /\ c.right # None => (2 * c.idx <= Len(reads) /\ c.right = Some(reads[2 * c.idx]))
          /\ c.right = None => 2 * c.idx > NumLeaves
    /\ \A c \in calls : c.lvl >= 2 =>
          (c.left[1] \in {d.out : d \in calls} /\
           (c.right # None => c.right[1] \in {d.out : d \in calls}))
    /\ pc = "returned" => NodeCount(1) = (NumLeaves + 1) \div 2

\* C9: DepthWalk consumes the source strictly forward: every leaf is taken by
\* exactly one next() call, in source order, enters the tree at exactly one
\* level-0 position, and the source is exhausted when calculate returns.
C9_ForwardConsumption ==
    (mode = "depth" /\ pc \in {"ready", "depth", "returned"}) =>
        /\ reads \o source = leaves
        /\ pc = "returned" => (source = <<>> /\ reads = leaves /\ NumLeaves >= 1)
        /\ LeavesEnterOnce

\* DepthWalk has returned after reading seven leaves.
C9_Witness ==
    /\ mode = "depth"
    /\ pc = "returned"
    /\ leaves = DistinctLeaves(7)
    /\ reads = leaves
    /\ source = <<>>

\* ascent steps made so far: the levels whose leftmost node exists
Ascents == Cardinality({c \in calls : c.idx = 1})

WalkUpFrames == {k \in 1..Len(stack) : stack[k].fn = "walk_up"}

\* The ascent at height h+1 is entered only when more than 2^h leaves exist,
\* and a returned walk has made max(1, ceil(log2 n)) ascent steps.
AscentsLogarithmic ==
    /\ \A k \in WalkUpFrames : stack[k].height >= 2 => NumLeaves > 2^(stack[k].height - 1)
    /\ Cardinality(WalkUpFrames) <= Max(1, CeilLog2(NumLeaves))
    /\ pc = "returned" =>
          /\ Ascents = Max(1, CeilLog2(NumLeaves))
          /\ Levels = 1..Max(1, CeilLog2(NumLeaves))

\* C10 as stated: the nesting depth of walk_up plus walk_down frames never
\* exceeds 2*ceil(log2 n) + 1, and the number of ascent steps is
\* max(1, ceil(log2 n)).
C10_DepthBoundAsStated ==
    (mode = "depth" /\ pc \in {"depth", "returned"}) =>
        /\ AscentsLogarithmic
        /\ Len(stack) <= 2 * CeilLog2(NumLeaves) + 1

\* the nesting depth stays within 2*max(1, ceil(log2 n))
DepthBound ==
    (mode = "depth" /\ pc \in {"depth", "returned"}) =>
        /\ AscentsLogarithmic
        /\ Len(stack) <= 2 * Max(1, CeilLog2(NumLeaves))

\* C10 amended: DepthWalk terminates on every finite non-empty source, makes
\* max(1, ceil(log2 n)) ascent steps, and the nesting depth of walk_up plus
\* walk_down frames never exceeds 2*max(1, ceil(log2 n)).
C10_TerminatesWithLogDepth ==
    /\ []DepthBound
    /\ (mode = "depth" /\ pc = "ready" /\ NumLeaves >= 1)
           ~> (mode = "depth" /\ pc = "returned")

\* DepthWalk over nine leaves is in its fourth ascent step with the stack at
\* its deepest, eight frames.
C10_Witness ==
    /\ mode = "depth"
    /\ pc = "depth"
    /\ NumLeaves = 9
    /\ Len(stack) = 8
    /\ Cardinality(WalkUpFrames) = 4
====
